---- MODULE Spec2Model ----
(***************************************************************************)
(* Model of the variant store, the batch orchestrator, the export/cleanup  *)
(* path and the App shell of the Meesho price-optimisation suite.          *)
(*                                                                         *)
(* Sources: src/services/imageService.ts (second, current copy of the      *)
(* service, lines 237-485), src/services/visionService.ts, src/App.tsx,    *)
(* src/unnamed/part_001 (the SynthesizerModule that App.tsx mounts: it     *)
(* takes onClearHistory), src/components/ValidatorModule.tsx and           *)
(* src/unnamed/part_002 (the InsightsModule).                              *)
(*                                                                         *)
(* JavaScript runs every handler to its next await; one action of the      *)
(* model is one such run.  IndexedDB requests complete in the order they   *)
(* were issued, so the pending requests form the FIFO dbQueue.             *)
(***************************************************************************)
EXTENDS Integers, Sequences, FiniteSets, TLC

\* ---- bounds of the model ------------------------------------------------
MaxClock == 1
MaxCount == 2
MaxLoops == 2
MaxExports == 1
MaxClearKey == 1
MaxSims == 2
MaxTaggings == 2
MaxBackgrounds == 1
MaxDim == 5        \* largest width and height of a source image
MaxScale == 10     \* largest upscaleFactor, in units of 1/ScaleUnit
NoisePixels == 2   \* pixels of the image data the noise stage walks
ExportSlots == 2   \* export invocations of the remount scenario

\* ---- program constants --------------------------------------------------
Sections == {"synthesizer", "validator", "insights", "settings"}

VARIABLES
  clock,            \* the last value Date.now() returned
  store,            \* object store 'ImageVariants', records in key order
  dbQueue,          \* IndexedDB requests issued and not yet completed
  activeSection,    \* App state
  variants,         \* App state: the in-memory variant list
  clearKey,         \* App state
  isLoadingHistory, \* App state
  synth,            \* state of the mounted SynthesizerModule instance
  loops,            \* handleGenerate invocations (they outlive their instance)
  exps,             \* downloadBatchSequentially invocations
  lastAlert,        \* the last alert() dialog shown
  expected,         \* history: the variants put since the last clear, by id
  lastWrite,        \* history: the last store write that completed
  lastClear,        \* history: outcome and caller of the last clear request
  valid,            \* state of the mounted ValidatorModule instance
  sims,             \* startSimulation invocations
  taggings,         \* triggerAITagging invocations
  backgrounds,      \* handleGenerateBackground invocations
  lastSave,         \* history: the last file save that was triggered
  render            \* a generateVariant call on a source image, seen alone

\* the variables the store, batch, export and purge handlers never write
auxVars == <<valid, sims, taggings, backgrounds, lastSave, render>>

vars == <<clock, store, dbQueue, activeSection, variants, clearKey,
          isLoadingHistory, synth, loops, exps, lastAlert, expected,
          lastWrite, lastClear, valid, sims, taggings, backgrounds,
          lastSave, render>>

\* ---- variants -----------------------------------------------------------
\* An optional field that is not set holds Absent; an optional number that
\* is undefined holds Undefined.
Absent == "absent"
Undefined == -1

\* upscale factors are counted in units of 1/ScaleUnit
ScaleUnit == 4

\* const scale = options.upscaleFactor || 1
ResolveScale(options) ==
  IF options.upscaleFactor = Undefined \/ options.upscaleFactor = 0
  THEN ScaleUnit
  ELSE options.upscaleFactor

\* opacities are counted in units of 1/OpacityUnit
OpacityUnit == 100

\* opacity: options.opacity ?? 0.03
ResolveOpacity(options) ==
  IF options.opacity = Undefined THEN 3 ELSE options.opacity

\* options.exportFormat || 'image/jpeg'
ResolveFormat(options) ==
  IF options.exportFormat = Absent THEN "image/jpeg" ELSE options.exportFormat

\* mutant: the product is rounded to the nearest integer
CanvasSizeRounded(img, options) ==
  [width |-> (2 * img.width * ResolveScale(options) + ScaleUnit)
               \div (2 * ScaleUnit),
   height |-> (2 * img.height * ResolveScale(options) + ScaleUnit)
                \div (2 * ScaleUnit)]

\* canvas.width = baseImage.width * scale; canvas.height likewise.  The
\* width and height of a canvas are unsigned integers: the setter drops the
\* fraction of the product.
CanvasSize(img, options) ==
  [width |-> (img.width * ResolveScale(options)) \div ScaleUnit,
   height |-> (img.height * ResolveScale(options)) \div ScaleUnit]

\* The variant literal of generateVariant.  The id `cloaked-${Date.now()}-${i}`
\* is the pair <<t, i>> (the mode tag is fixed); dataUrl is the encoded
\* raster, kept as its MIME type and its size; config keeps the fields of the
\* resolved OverlayConfig that a handler reads.
MakeVariant(t, i, ts, img, options) ==
  [id |-> <<t, i>>,
   dataUrl |-> [mime |-> ResolveFormat(options),
                size |-> CanvasSize(img, options)],
   config |-> [exportFormat |-> ResolveFormat(options),
               upscaleFactor |-> ResolveScale(options),
               opacity |-> ResolveOpacity(options)],
   status |-> "pending",
   timestamp |-> ts,
   tags |-> options.tags,
   errorMessage |-> Absent,
   detectedPrice |-> Absent,
   detectedShipping |-> Undefined]

\* the base image of a form without a picture (useState(null))
NoImage == [width |-> 0, height |-> 0]

\* the picture of the upload form once loadImage has decoded it
UploadedImage == [width |-> 4, height |-> 3]

\* the picture generateProductBackground resolves with
\* (`data:image/png;base64,${part.inlineData.data}`), once decoded
GeneratedMaster == [width |-> 2, height |-> 2]


\* the options handleGenerate passes: exportFormat, upscaleFactor and opacity
\* keep their useState defaults (the mounted module never calls their
\* setters)
FormOptions(tags) ==
  [exportFormat |-> "image/jpeg", upscaleFactor |-> ScaleUnit, opacity |-> 4,
   tags |-> tags]

\* Key order of the object store (keyPath 'id'): the time stamp has a fixed
\* number of digits and i is a single digit within the bounds, so the string
\* order of the ids is the lexicographic order of the pairs.
IdLess(a, b) == a[1] < b[1] \/ (a[1] = b[1] /\ a[2] < b[2])

\* ---- strings: ids and file names ----------------------------------------
\* A string is the sequence of its characters.
DigitChars == <<"0", "1", "2", "3", "4", "5", "6", "7", "8", "9">>

\* String(n) of a number n >= 0
RECURSIVE NumberString(_)
NumberString(n) ==
  IF n < 10 THEN <<DigitChars[n + 1]>>
  ELSE NumberString(n \div 10) \o <<DigitChars[(n % 10) + 1]>>

\* Date.now() has thirteen digits; the clock of the model counts the
\* milliseconds since 1700000000001
TimeString(t) ==
  <<"1", "7", "0", "0", "0", "0", "0", "0", "0", "0", "0", "0">>
  \o NumberString(t + 1)

\* `cloaked-${Date.now()}-${i}`
IdString(id) ==
  <<"c", "l", "o", "a", "k", "e", "d", "-">> \o TimeString(id[1])
  \o <<"-">> \o NumberString(id[2])

\* str.split('-').pop(): what follows the last '-'
RECURSIVE LastSegment(_)
LastSegment(str) ==
  IF str = <<>> THEN <<>>
  ELSE IF str[Len(str)] = "-" THEN <<>>
  ELSE LastSegment(SubSeq(str, 1, Len(str) - 1)) \o <<str[Len(str)]>>

\* str.slice(-4): the last four characters
LastFour(str) ==
  IF Len(str) <= 4 THEN str ELSE SubSeq(str, Len(str) - 3, Len(str))

\* v.config.exportFormat === 'image/png' ? 'png' : 'jpg'
Extension(v) ==
  IF v.config.exportFormat = "image/png" THEN <<"p", "n", "g">>
  ELSE <<"j", "p", "g">>

\* `cloaked-asset-${shortId}.${ext}` of downloadBatchSequentially
BulkFilename(v) ==
  <<"c", "l", "o", "a", "k", "e", "d", "-", "a", "s", "s", "e", "t", "-">>
  \o LastSegment(IdString(v.id)) \o <<".">> \o Extension(v)

\* `v-${v.id.slice(-4)}.jpg` of the 'Download Single' button
SingleFilename(v) ==
  <<"v", "-">> \o LastFour(IdString(v.id)) \o <<".", "j", "p", "g">>

\* `cloaked_opt_${shortId}.${ext}` of exportToCSV
CsvFilename(v) ==
  <<"c", "l", "o", "a", "k", "e", "d", "_", "o", "p", "t", "_">>
  \o LastSegment(IdString(v.id)) \o <<".">> \o Extension(v)

\* `optimized-master-${shortId}.jpg` of the 'Download Master' button
MasterFilename(v) ==
  <<"o", "p", "t", "i", "m", "i", "z", "e", "d", "-",
    "m", "a", "s", "t", "e", "r", "-">>
  \o LastSegment(IdString(v.id)) \o <<".", "j", "p", "g">>

\* `metadata-variant-${shortId}.json` of handleExportBestMetadata
MetadataFilename(v) ==
  <<"m", "e", "t", "a", "d", "a", "t", "a", "-",
    "v", "a", "r", "i", "a", "n", "t", "-">>
  \o LastSegment(IdString(v.id)) \o <<".", "j", "s", "o", "n">>

\* one file name given to a variant: by downloadImage, or in a CSV row
FileOf(v, name) == [variant |-> v, name |-> name]

\* ---- the variant store --------------------------------------------------
\* mutant: put adds a record and never replaces the one under the same key
StorePutAppend(s, v) == Append(s, v)

\* mutant: the record never reaches the object store
StorePutDropped(s, v) == s

\* store.put(variant) on an object store with keyPath 'id': insert, or
\* overwrite the record under the same id
RECURSIVE StorePut(_, _)
StorePut(s, v) ==
  IF s = <<>> THEN <<v>>
  ELSE IF Head(s).id = v.id THEN <<v>> \o Tail(s)
  ELSE IF IdLess(v.id, Head(s).id) THEN <<v>> \o s
  ELSE <<Head(s)>> \o StorePut(Tail(s), v)

\* mutant: only the first record is deleted
StoreClearFirst(s) == IF s = <<>> THEN s ELSE Tail(s)

\* store.clear()
StoreClear(s) == <<>>

\* store.getAll(): every record, in key order
GetAllVariants(s) == s

InStore(s, v) == \E k \in 1..Len(s) : s[k] = v

\* Array.prototype.sort with (a, b) => b.timestamp - a.timestamp (stable)
RECURSIVE InsertDesc(_, _)
InsertDesc(sorted, v) ==
  IF sorted = <<>> THEN <<v>>
  ELSE IF Head(sorted).timestamp >= v.timestamp
       THEN <<Head(sorted)>> \o InsertDesc(Tail(sorted), v)
       ELSE <<v>> \o sorted

RECURSIVE SortByTimestampDesc(_)
SortByTimestampDesc(s) ==
  IF s = <<>> THEN <<>>
  ELSE InsertDesc(SortByTimestampDesc(SubSeq(s, 1, Len(s) - 1)), s[Len(s)])

\* ---- records of the state -----------------------------------------------
NoVariant ==
  [MakeVariant(-2, -2, -2, UploadedImage, FormOptions(<<>>))
     EXCEPT !.status = "none"]

\* useState defaults of SynthesizerModule.  The fields the user types or
\* ticks (productName, customPrompt, variantCount, clearAfterDownload) are
\* read only by the click handlers and are inputs of those actions.
\* Progress values are kept as the fraction <<numerator, denominator>> of
\* ((i + 1) / total) * 100.
FreshSynth(existing) ==
  [mounted |-> TRUE, isGenerating |-> FALSE, progress |-> <<0, 1>>,
   lastBatch |-> existing, isBatchDownloading |-> FALSE,
   exportProgress |-> <<0, 1>>, tags |-> <<>>, isTagging |-> FALSE,
   isGeneratingBG |-> FALSE, baseImage |-> NoImage,
   originalImage |-> NoImage]

NoSynth == [FreshSynth(<<>>) EXCEPT !.mounted = FALSE]

\* autoNavigate has no setter in the mounted SynthesizerModule
AutoNavigate == FALSE

IdleLoop ==
  [pc |-> "idle", attached |-> FALSE, i |-> 0, count |-> 0, tags |-> <<>>,
   img |-> UploadedImage, newVariants |-> <<>>, calls |-> 0, cur |-> NoVariant,
   failed |-> FALSE, saveFailed |-> FALSE, delivered |-> FALSE]

\* useState defaults of ValidatorModule, and its first
\* useEffect(() => setResults(variants), [variants])
FreshValid(list) == [mounted |-> TRUE, isRunning |-> FALSE, results |-> list]

NoValid == [FreshValid(<<>>) EXCEPT !.mounted = FALSE]

\* useEffect(() => setResults(variants), [variants]) after a change of the list
SyncResults(v, list) == IF v.mounted THEN [v EXCEPT !.results = list] ELSE v

IdleSim ==
  [pc |-> "idle", attached |-> FALSE, i |-> 0, snapshot |-> <<>>,
   updatedVariants |-> <<>>]

\* one invocation of handleImageUpload and of the triggerAITagging call of
\* its reader.onload: settled is the outcome of the promise of
\* analyzeProductImage, result the list it resolved with
IdleTagging ==
  [pc |-> "idle", attached |-> FALSE, settled |-> "none", result |-> <<>>]

\* one invocation of handleGenerateBackground that waits for the
\* collaborator: result is what generateProductBackground resolved with
IdleBackground == [pc |-> "idle", attached |-> FALSE, result |-> "none"]

NoSave == [kind |-> "none", files |-> <<>>]

NoRender == [pc |-> "idle"]

IdleExp ==
  [pc |-> "idle", attached |-> FALSE, i |-> 0, batch |-> <<>>,
   clear |-> FALSE, saved |-> <<>>]

Req(op, l, e, path, conf) ==
  [op |-> op, loop |-> l, exp |-> e, path |-> path, confirmed |-> conf]

\* a component that is unmounted ignores the state setters of its closures
Detach(procs) == [k \in DOMAIN procs |-> [procs[k] EXCEPT !.attached = FALSE]]

\* useEffect(() => setLastBatch(existingVariants), [existingVariants])
SyncLastBatch(s, existing) ==
  IF s.mounted THEN [s EXCEPT !.lastBatch = existing] ELSE s

\* the variants a previous session may have left in the store
PriorStores ==
  {<<>>, <<MakeVariant(-1, 0, -1, UploadedImage, FormOptions(<<>>))>>}

\* the stores of the export scenario: a former session has left a batch of
\* one or of two variants
ExportedStores ==
  {<<MakeVariant(-1, 0, -1, UploadedImage, FormOptions(<<>>))>>,
   <<MakeVariant(-1, 0, -1, UploadedImage, FormOptions(<<>>)),
     MakeVariant(-1, 1, -1, UploadedImage, FormOptions(<<>>))>>}

\* ---- initial state: App and SynthesizerModule have mounted --------------
InitFrom(stores) ==
  /\ clock = 0
  /\ store \in stores
  /\ dbQueue = <<Req("getAll", 0, 0, "mount", FALSE)>>
  /\ activeSection = "synthesizer"
  /\ variants = <<>>
  /\ clearKey = 0
  /\ isLoadingHistory = TRUE
  /\ synth = FreshSynth(<<>>)
  /\ loops = [l \in 1..MaxLoops |-> IdleLoop]
  /\ exps = [e \in 1..MaxExports |-> IdleExp]
  /\ lastAlert = "none"
  /\ expected = {store[k] : k \in 1..Len(store)}
  /\ lastWrite = "none"
  /\ lastClear = [outcome |-> "none", path |-> "none"]
  /\ valid = NoValid
  /\ sims = [k \in 1..MaxSims |-> IdleSim]
  /\ taggings = [k \in 1..MaxTaggings |-> IdleTagging]
  /\ backgrounds = [k \in 1..MaxBackgrounds |-> IdleBackground]
  /\ lastSave = NoSave
  /\ render = NoRender

Init == InitFrom(PriorStores)

\* ---- navigation ----------------------------------------------------------
SetActiveSection(s) ==
  /\ s # activeSection
  /\ activeSection' = s
  /\ synth' = IF s = "synthesizer" THEN FreshSynth(variants) ELSE NoSynth
  /\ loops' = Detach(loops)
  /\ exps' = Detach(exps)
  /\ valid' = IF s = "validator" THEN FreshValid(variants) ELSE NoValid
  /\ sims' = Detach(sims)
  /\ taggings' = Detach(taggings)
  /\ backgrounds' = Detach(backgrounds)
  /\ UNCHANGED <<clock, store, dbQueue, variants, clearKey, isLoadingHistory,
                 lastAlert, expected, lastWrite, lastClear, lastSave,
                 render>>

\* ---- batch orchestrator: handleGenerate ----------------------------------
\* finally { setIsGenerating(false) } of the invocation in slot l
FinishGenerating(l, s) ==
  IF loops[l].attached THEN [s EXCEPT !.isGenerating = FALSE] ELSE s

\* click on the generate button (disabled while isGenerating or without
\* base image or product name); runs up to `await loadImage(baseImage)`.
\* The count field stores Number(e.target.value) of a number input that has
\* no min, max or step: a count is held in units of 1/CountUnit.
CountUnit == 2

\* the counts the form may hold: 0, 1/2, 1, 3/2, ... MaxCount
VariantCounts == 0..(MaxCount * CountUnit)

\* hasName: the form holds a product name; n: variantCount, in units of
\* 1/CountUnit.
HandleGenerate(hasName, n) ==
  /\ synth.mounted
  /\ ~synth.isGenerating
  /\ synth.baseImage # NoImage
  /\ hasName
  /\ \E l \in 1..MaxLoops :
       /\ loops[l].pc = "idle"
       /\ \A k \in 1..(l - 1) : loops[k].pc # "idle"
       /\ loops' = [loops EXCEPT ![l] =
                      [IdleLoop EXCEPT !.pc = "loadImage", !.attached = TRUE,
                                       !.count = n, !.tags = synth.tags,
                                       !.img = synth.baseImage]]
  /\ synth' = [synth EXCEPT !.isGenerating = TRUE, !.progress = <<0, 1>>]
  /\ UNCHANGED auxVars
  /\ UNCHANGED <<clock, store, dbQueue, activeSection, variants, clearKey,
                 isLoadingHistory, exps, lastAlert, expected, lastWrite,
                 lastClear>>

\* generateVariant(img, productName, `cloaked-${Date.now()}-${idx}`, ...) up to
\* `await saveVariantToDB(variant)`: the id takes the time of the call (now),
\* the timestamp the time after rendering (ts).  Date.now() never runs
\* backwards; clock is its last value read.
CallGenerateVariant(l, idx) ==
  /\ idx * CountUnit < loops[l].count
  /\ \E now \in clock..MaxClock, ts \in clock..MaxClock :
       /\ now <= ts
       /\ clock' = ts
       /\ loops' = [loops EXCEPT ![l].pc = "saving", ![l].i = idx,
                                 ![l].calls = @ + 1,
                                 ![l].cur =
                                   MakeVariant(now, idx, ts, loops[l].img,
                                               FormOptions(loops[l].tags))]
  /\ dbQueue' = Append(dbQueue, Req("put", l, 0, "batch", FALSE))
  /\ UNCHANGED auxVars
  /\ UNCHANGED <<store, activeSection, variants, clearKey, isLoadingHistory,
                 synth, exps, lastAlert, expected, lastWrite, lastClear>>

\* generateVariant throws 'Could not get canvas context'; handleGenerate
\* catches, logs and runs its finally block
CallGenerateVariantNoContext(l, idx) ==
  /\ idx * CountUnit < loops[l].count
  /\ loops' = [loops EXCEPT ![l].pc = "done", ![l].i = idx,
                            ![l].calls = @ + 1, ![l].failed = TRUE]
  /\ synth' = FinishGenerating(l, synth)
  /\ UNCHANGED auxVars
  /\ UNCHANGED <<clock, store, dbQueue, activeSection, variants, clearKey,
                 isLoadingHistory, exps, lastAlert, expected, lastWrite,
                 lastClear>>

\* the for loop has ended: onVariantsGenerated(newVariants, autoNavigate),
\* that is App.handleVariantsGenerated, then the finally block
DeliverBatch(l, idx) ==
  /\ idx * CountUnit >= loops[l].count
  /\ variants' = loops[l].newVariants \o variants
  /\ activeSection' = IF AutoNavigate THEN "validator" ELSE activeSection
  /\ synth' = IF activeSection' = "synthesizer"
              THEN SyncLastBatch(FinishGenerating(l, synth), variants')
              ELSE NoSynth
  /\ loops' = [k \in 1..MaxLoops |->
                 IF k = l
                 THEN [loops[l] EXCEPT !.pc = "done", !.i = idx,
                                       !.delivered = TRUE,
                                       !.newVariants = <<>>,
                                       !.attached = @ /\ synth'.mounted]
                 ELSE [loops[k] EXCEPT !.attached = @ /\ synth'.mounted]]
  /\ exps' = IF synth'.mounted THEN exps ELSE Detach(exps)
  /\ taggings' = IF synth'.mounted THEN taggings ELSE Detach(taggings)
  /\ backgrounds' = IF synth'.mounted THEN backgrounds
                  ELSE Detach(backgrounds)
  /\ valid' = IF activeSection' = "validator" /\ activeSection # "validator"
              THEN FreshValid(variants')
              ELSE SyncResults(valid, variants')
  /\ UNCHANGED <<sims, lastSave, render>>
  /\ UNCHANGED <<clock, store, dbQueue, clearKey, isLoadingHistory, lastAlert,
                 expected, lastWrite, lastClear>>

\* one pass through the head of `for (let i = 0; i < variantCount; i++)`
Iterate(l, idx) ==
  \/ CallGenerateVariant(l, idx)
  \/ CallGenerateVariantNoContext(l, idx)
  \/ DeliverBatch(l, idx)

LoadImageOk(l) ==
  /\ loops[l].pc = "loadImage"
  /\ Iterate(l, 0)

LoadImageFail(l) ==
  /\ loops[l].pc = "loadImage"
  /\ loops' = [loops EXCEPT ![l].pc = "done", ![l].failed = TRUE]
  /\ synth' = FinishGenerating(l, synth)
  /\ UNCHANGED auxVars
  /\ UNCHANGED <<clock, store, dbQueue, activeSection, variants, clearKey,
                 isLoadingHistory, exps, lastAlert, expected, lastWrite,
                 lastClear>>

\* the 10 ms timer of the loop body fires: i++ and the next pass
SleepDone(l) ==
  /\ loops[l].pc = "sleep"
  /\ Iterate(l, loops[l].i + 1)

\* newVariants.push(variant)
PushVariant(list, v) == Append(list, v)

\* setProgress(((i + 1) / variantCount) * 100), as a fraction
BatchProgressOf(i, count) == <<(i + 1) * CountUnit, count>>

\* saveVariantToDB: transaction.oncomplete; generateVariant returns the
\* variant, the loop pushes it, reports progress and starts its timer
DbPutOk ==
  /\ dbQueue # <<>>
  /\ Head(dbQueue).op = "put"
  /\ LET l == Head(dbQueue).loop
         v == loops[l].cur
     IN /\ store' = StorePut(store, v)
        /\ expected' = {w \in expected : w.id # v.id} \cup {v}
        /\ loops' = [loops EXCEPT ![l].pc = "sleep",
                                  ![l].newVariants = PushVariant(@, v),
                                  ![l].cur = NoVariant]
        /\ synth' = IF loops[l].attached
                    THEN [synth EXCEPT !.progress =
                                         BatchProgressOf(loops[l].i,
                                                         loops[l].count)]
                    ELSE synth
  /\ lastWrite' = "put"
  /\ dbQueue' = Tail(dbQueue)
  /\ UNCHANGED auxVars
  /\ UNCHANGED <<clock, activeSection, variants, clearKey, isLoadingHistory,
                 exps, lastAlert, lastClear>>

\* mutant: the failing save takes the variants of its batch out of the store
DbPutFailRollback ==
  /\ dbQueue # <<>>
  /\ Head(dbQueue).op = "put"
  /\ LET l == Head(dbQueue).loop
         kept == SelectSeq(store, LAMBDA w :
                             \A k \in 1..Len(loops[l].newVariants) :
                               loops[l].newVariants[k].id # w.id)
     IN /\ loops' = [loops EXCEPT ![l].pc = "done", ![l].failed = TRUE,
                                  ![l].saveFailed = TRUE,
                                  ![l].cur = NoVariant]
        /\ synth' = FinishGenerating(l, synth)
        /\ store' = kept
  /\ dbQueue' = Tail(dbQueue)
  /\ UNCHANGED auxVars
  /\ UNCHANGED <<clock, activeSection, variants, clearKey, isLoadingHistory,
                 exps, lastAlert, expected, lastWrite, lastClear>>

\* saveVariantToDB rejects (open or transaction error): generateVariant
\* rejects, handleGenerate catches, logs and runs its finally block
DbPutFail ==
  /\ dbQueue # <<>>
  /\ Head(dbQueue).op = "put"
  /\ LET l == Head(dbQueue).loop
     IN /\ loops' = [loops EXCEPT ![l].pc = "done", ![l].failed = TRUE,
                                  ![l].saveFailed = TRUE,
                                  ![l].cur = NoVariant]
        /\ synth' = FinishGenerating(l, synth)
  /\ dbQueue' = Tail(dbQueue)
  /\ UNCHANGED auxVars
  /\ UNCHANGED <<clock, store, activeSection, variants, clearKey,
                 isLoadingHistory, exps, lastAlert, expected, lastWrite,
                 lastClear>>

\* the transaction of saveVariantToDB is aborted at its commit: only its
\* abort event fires, for which saveVariantToDB has no handler, so the promise
\* never settles; generateVariant and handleGenerate wait for ever, and the
\* finally block never runs
DbPutAbort ==
  /\ dbQueue # <<>>
  /\ Head(dbQueue).op = "put"
  /\ loops' = [loops EXCEPT ![Head(dbQueue).loop].pc = "hung"]
  /\ dbQueue' = Tail(dbQueue)
  /\ UNCHANGED auxVars
  /\ UNCHANGED <<clock, store, activeSection, variants, clearKey,
                 isLoadingHistory, synth, exps, lastAlert, expected,
                 lastWrite, lastClear>>

\* ---- purge: App.handleClearHistory and its callers -----------------------
\* clears that are pending or that a running export will issue
PendingClears ==
  Cardinality({k \in 1..Len(dbQueue) : dbQueue[k].op = "clear"})
  + Cardinality({e \in DOMAIN exps : exps[e].pc = "sleep" /\ exps[e].clear})

\* bound: a purge is started only while clearKey would stay within
\* MaxClearKey should every pending clear succeed
PurgeBudget == clearKey + PendingClears < MaxClearKey

\* settings page: confirm("DANGER: ...") then handleClearHistory(), which
\* runs up to `await clearAllVariantsFromDB()`
SettingsPurge ==
  /\ activeSection = "settings"
  /\ PurgeBudget
  /\ \E ok \in BOOLEAN :
       dbQueue' = IF ok
                  THEN Append(dbQueue, Req("clear", 0, 0, "settings", TRUE))
                  ELSE dbQueue
  /\ UNCHANGED auxVars
  /\ UNCHANGED <<clock, store, activeSection, variants, clearKey,
                 isLoadingHistory, synth, loops, exps, lastAlert, expected,
                 lastWrite, lastClear>>

\* SynthesizerModule.handleClear: confirm("Reset current workspace?"), reset
\* of the form and of lastBatch, then onClearHistory().  (The handler is
\* defined in the mounted module, which renders no button for it.)
HandleClear ==
  /\ synth.mounted
  /\ PurgeBudget
  /\ \E ok \in BOOLEAN :
       IF ok
       THEN /\ synth' = [synth EXCEPT !.lastBatch = <<>>,
                                      !.baseImage = NoImage,
                                      !.originalImage = NoImage]
            /\ dbQueue' = Append(dbQueue, Req("clear", 0, 0, "reset", TRUE))
       ELSE UNCHANGED <<synth, dbQueue>>
  /\ UNCHANGED auxVars
  /\ UNCHANGED <<clock, store, activeSection, variants, clearKey,
                 isLoadingHistory, loops, exps, lastAlert, expected,
                 lastWrite, lastClear>>

\* ---- bulk export: downloadBatchSequentially ------------------------------
\* mutant: the loop reads the batch from its end
BatchItemReversed(batch, i) == batch[Len(batch) - i]

\* const v = lastBatch[i]
BatchItem(batch, i) == batch[i + 1]

\* mutant: the progress counts the items before the current one
ExportProgressBefore(i, total) == <<i, total>>

\* setExportProgress(((i + 1) / lastBatch.length) * 100), as a fraction
ExportProgressOf(i, total) == <<i + 1, total>>

\* downloadImage(v.dataUrl, `cloaked-asset-${shortId}.${ext}`): the file
\* save the loop body triggers for item v
SaveItem(v) == FileOf(v, BulkFilename(v))

\* click on the export button (rendered while lastBatch is not empty); the
\* first item is saved and its 600 ms timer started.  clearAfterDownload: the
\* 'Destroy History after download' checkbox at the time of the click.
DownloadBatchSequentially(clearAfterDownload) ==
  /\ synth.mounted
  /\ synth.lastBatch # <<>>
  /\ ~synth.isBatchDownloading
  /\ clearAfterDownload => PurgeBudget
  /\ \E e \in DOMAIN exps :
       /\ exps[e].pc = "idle"
       /\ \A k \in 1..(e - 1) : exps[k].pc # "idle"
       /\ exps' = [exps EXCEPT ![e] =
                     [pc |-> "sleep", attached |-> TRUE, i |-> 0,
                      batch |-> synth.lastBatch,
                      clear |-> clearAfterDownload,
                      saved |-> <<SaveItem(BatchItem(synth.lastBatch, 0))>>]]
  /\ synth' = [synth EXCEPT !.isBatchDownloading = TRUE,
                            !.exportProgress =
                              ExportProgressOf(0, Len(synth.lastBatch))]
  /\ lastSave' = [kind |-> "bulk",
                  files |-> <<SaveItem(BatchItem(synth.lastBatch, 0))>>]
  /\ UNCHANGED <<valid, sims, taggings, backgrounds, render>>
  /\ UNCHANGED <<clock, store, dbQueue, activeSection, variants, clearKey,
                 isLoadingHistory, loops, lastAlert, expected, lastWrite,
                 lastClear>>

\* finally { setIsBatchDownloading(false); setExportProgress(0) }
FinishExport(e, s) ==
  IF exps[e].attached
  THEN [s EXCEPT !.isBatchDownloading = FALSE, !.exportProgress = <<0, 1>>]
  ELSE s

\* the 600 ms timer fires and the next item is saved
ExportNextItem(e) ==
  /\ exps[e].pc = "sleep"
  /\ exps[e].i + 1 < Len(exps[e].batch)
  /\ LET i == exps[e].i + 1
         file == SaveItem(BatchItem(exps[e].batch, i))
     IN /\ exps' = [exps EXCEPT ![e].i = i, ![e].saved = Append(@, file)]
        /\ synth' = IF exps[e].attached
                    THEN [synth EXCEPT !.exportProgress =
                                         ExportProgressOf(i, Len(exps[e].batch))]
                    ELSE synth
        /\ lastSave' = [kind |-> "bulk", files |-> <<file>>]
  /\ UNCHANGED <<valid, sims, taggings, backgrounds, render>>
  /\ UNCHANGED <<clock, store, dbQueue, activeSection, variants, clearKey,
                 isLoadingHistory, loops, lastAlert, expected, lastWrite,
                 lastClear>>

\* the last timer fires with clearAfterDownload set: setLastBatch([]) and
\* onClearHistory(), up to `await clearAllVariantsFromDB()`
ExportPurge(e) ==
  /\ exps[e].pc = "sleep"
  /\ exps[e].i + 1 >= Len(exps[e].batch)
  /\ exps[e].clear
  /\ exps' = [exps EXCEPT ![e].pc = "purging"]
  /\ synth' = IF exps[e].attached
              THEN [synth EXCEPT !.lastBatch = <<>>]
              ELSE synth
  /\ dbQueue' = Append(dbQueue, Req("clear", 0, e, "export", FALSE))
  /\ UNCHANGED auxVars
  /\ UNCHANGED <<clock, store, activeSection, variants, clearKey,
                 isLoadingHistory, loops, lastAlert, expected, lastWrite,
                 lastClear>>

\* the last timer fires without clearAfterDownload
ExportDone(e) ==
  /\ exps[e].pc = "sleep"
  /\ exps[e].i + 1 >= Len(exps[e].batch)
  /\ ~exps[e].clear
  /\ exps' = [exps EXCEPT ![e].pc = "done"]
  /\ synth' = FinishExport(e, synth)
  /\ UNCHANGED auxVars
  /\ UNCHANGED <<clock, store, dbQueue, activeSection, variants, clearKey,
                 isLoadingHistory, loops, lastAlert, expected, lastWrite,
                 lastClear>>

\* ---- single download and CSV export ---------------------------------------
\* click on 'Download Single' of item k of the results buffer
DownloadSingle(k) ==
  /\ synth.mounted
  /\ k \in 1..Len(synth.lastBatch)
  /\ lastSave' = [kind |-> "single",
                  files |-> <<FileOf(synth.lastBatch[k],
                                     SingleFilename(synth.lastBatch[k]))>>]
  /\ UNCHANGED <<clock, store, dbQueue, activeSection, variants, clearKey,
                 isLoadingHistory, synth, loops, exps, lastAlert, expected,
                 lastWrite, lastClear, valid, sims, taggings, backgrounds,
                 render>>

\* the rows of exportToCSV: the 'Local Filename' column
RECURSIVE CsvRows(_)
CsvRows(list) ==
  IF list = <<>> THEN <<>>
  ELSE <<FileOf(Head(list), CsvFilename(Head(list)))>> \o CsvRows(Tail(list))

\* click on 'Export Listings (CSV)' of the validator (rendered while results
\* is not empty): exportToCSV(results)
ExportListings ==
  /\ valid.mounted
  /\ Len(valid.results) > 0
  /\ lastSave' = [kind |-> "csv", files |-> CsvRows(valid.results)]
  /\ UNCHANGED <<clock, store, dbQueue, activeSection, variants, clearKey,
                 isLoadingHistory, synth, loops, exps, lastAlert, expected,
                 lastWrite, lastClear, valid, sims, taggings, backgrounds,
                 render>>

\* ---- insights: InsightsModule ---------------------------------------------
\* variants.filter(v => v.status === 'completed')
Completed(list) == SelectSeq(list, LAMBDA v : v.status = "completed")

\* v.detectedShipping || 999: a fee of 0 and a missing fee count as 999
ShippingOrDefault(v) ==
  IF v.detectedShipping = Undefined \/ v.detectedShipping = 0 THEN 999
  ELSE v.detectedShipping

\* completed.reduce((prev, curr) => (curr.detectedShipping || 999) <
\*   (prev.detectedShipping || 999) ? curr : prev), on a list that is not empty
RECURSIVE ReduceBest(_, _)
ReduceBest(prev, rest) ==
  IF rest = <<>> THEN prev
  ELSE ReduceBest(IF ShippingOrDefault(Head(rest)) < ShippingOrDefault(prev)
                  THEN Head(rest) ELSE prev,
                  Tail(rest))

\* analyzedData.bestVariant
BestVariant(list) == ReduceBest(Head(Completed(list)), Tail(Completed(list)))

\* the module renders its buttons only when analyzedData is not null, that
\* is, when some variant is completed
InsightsRendered ==
  /\ activeSection = "insights"
  /\ Completed(variants) # <<>>

InsightsFrame ==
  UNCHANGED <<clock, store, dbQueue, activeSection, variants, clearKey,
              isLoadingHistory, synth, loops, exps, lastAlert, expected,
              lastWrite, lastClear, valid, sims, taggings, backgrounds,
              render>>

\* click on 'Download Master': downloadImage(bestVariant.dataUrl,
\* `optimized-master-${shortId}.jpg`)
HandleDownloadBest ==
  /\ InsightsRendered
  /\ lastSave' = [kind |-> "master",
                  files |-> <<FileOf(BestVariant(variants),
                                     MasterFilename(BestVariant(variants)))>>]
  /\ InsightsFrame

\* click on the metadata button: the JSON of the best variant is saved as
\* `metadata-variant-${shortId}.json`
HandleExportBestMetadata ==
  /\ InsightsRendered
  /\ lastSave' = [kind |-> "metadata",
                  files |-> <<FileOf(BestVariant(variants),
                                     MetadataFilename(BestVariant(variants)))>>]
  /\ InsightsFrame

\* click on the export button of the insights page: exportToCSV(variants)
HandleExportAll ==
  /\ InsightsRendered
  /\ Len(variants) > 0
  /\ lastSave' = [kind |-> "csv", files |-> CsvRows(variants)]
  /\ InsightsFrame

\* ---- completion of clearAllVariantsFromDB --------------------------------
\* transaction.oncomplete: handleClearHistory empties the list and bumps
\* clearKey, which remounts the keyed modules and re-runs loadHistory; the
\* settings page then reports success
DbClearOk ==
  /\ dbQueue # <<>>
  /\ Head(dbQueue).op = "clear"
  /\ store' = StoreClear(store)
  /\ expected' = {}
  /\ lastWrite' = "clear"
  /\ lastClear' = [outcome |-> "ok", path |-> Head(dbQueue).path]
  /\ variants' = <<>>
  /\ clearKey' = clearKey + 1
  /\ synth' = IF activeSection = "synthesizer" THEN FreshSynth(<<>>)
              ELSE NoSynth
  /\ loops' = Detach(loops)
  /\ exps' = [e \in DOMAIN exps |->
                IF Head(dbQueue).exp = e
                THEN [exps[e] EXCEPT !.pc = "done", !.attached = FALSE]
                ELSE [exps[e] EXCEPT !.attached = FALSE]]
  /\ dbQueue' = Append(Tail(dbQueue), Req("getAll", 0, 0, "mount", FALSE))
  /\ lastAlert' = IF Head(dbQueue).path = "settings" THEN "resetOk"
                  ELSE lastAlert
  /\ valid' = IF activeSection = "validator" THEN FreshValid(<<>>)
              ELSE NoValid
  /\ sims' = Detach(sims)
  /\ taggings' = Detach(taggings)
  /\ backgrounds' = Detach(backgrounds)
  /\ UNCHANGED <<clock, activeSection, isLoadingHistory, lastSave, render>>

\* transaction.onerror or a failed open: handleClearHistory catches, logs and
\* alerts "Error clearing persistent storage. ..."
DbClearFail ==
  /\ dbQueue # <<>>
  /\ Head(dbQueue).op = "clear"
  /\ lastClear' = [outcome |-> "failed", path |-> Head(dbQueue).path]
  /\ lastAlert' = "clearError"
  /\ LET e == Head(dbQueue).exp
     IN IF e # 0
        THEN /\ exps' = [exps EXCEPT ![e].pc = "done"]
             /\ synth' = FinishExport(e, synth)
        ELSE UNCHANGED <<exps, synth>>
  /\ dbQueue' = Tail(dbQueue)
  /\ UNCHANGED auxVars
  /\ UNCHANGED <<clock, store, activeSection, variants, clearKey,
                 isLoadingHistory, loops, expected, lastWrite>>

\* the transaction of clearAllVariantsFromDB is aborted at its commit: only
\* its abort event fires and the promise never settles; handleClearHistory
\* waits for ever, and so does the export loop that awaits it
DbClearAbort ==
  /\ dbQueue # <<>>
  /\ Head(dbQueue).op = "clear"
  /\ lastClear' = [outcome |-> "aborted", path |-> Head(dbQueue).path]
  /\ LET e == Head(dbQueue).exp
     IN IF e # 0
        THEN exps' = [exps EXCEPT ![e].pc = "hung"]
        ELSE UNCHANGED exps
  /\ dbQueue' = Tail(dbQueue)
  /\ UNCHANGED auxVars
  /\ UNCHANGED <<clock, store, activeSection, variants, clearKey,
                 isLoadingHistory, synth, loops, lastAlert, expected,
                 lastWrite>>

\* ---- history recovery: App.loadHistory -----------------------------------
DbGetAllOk ==
  /\ dbQueue # <<>>
  /\ Head(dbQueue).op = "getAll"
  /\ LET history == GetAllVariants(store)
     IN IF Len(history) > 0
        THEN /\ variants' = SortByTimestampDesc(history)
             /\ synth' = SyncLastBatch(synth, variants')
             /\ valid' = SyncResults(valid, variants')
        ELSE UNCHANGED <<variants, synth, valid>>
  /\ isLoadingHistory' = FALSE
  /\ dbQueue' = Tail(dbQueue)
  /\ UNCHANGED <<sims, taggings, backgrounds, lastSave, render>>
  /\ UNCHANGED <<clock, store, activeSection, clearKey, loops, exps,
                 lastAlert, expected, lastWrite, lastClear>>

\* mutant: loadHistory without its finally block
DbGetAllFailKeepsLoading ==
  /\ dbQueue # <<>>
  /\ Head(dbQueue).op = "getAll"
  /\ dbQueue' = Tail(dbQueue)
  /\ UNCHANGED auxVars
  /\ UNCHANGED <<clock, store, activeSection, variants, clearKey, synth,
                 isLoadingHistory, loops, exps, lastAlert, expected,
                 lastWrite, lastClear>>

\* getAllVariantsFromDB rejects (request.onerror or a failed open):
\* loadHistory catches, logs and runs its finally block
DbGetAllFail ==
  /\ dbQueue # <<>>
  /\ Head(dbQueue).op = "getAll"
  /\ isLoadingHistory' = FALSE
  /\ dbQueue' = Tail(dbQueue)
  /\ UNCHANGED auxVars
  /\ UNCHANGED <<clock, store, activeSection, variants, clearKey, synth,
                 loops, exps, lastAlert, expected, lastWrite, lastClear>>

\* ---- validation: ValidatorModule.startSimulation -------------------------
\* Map.prototype.set on a map kept as the list of its values in insertion
\* order: an existing key keeps its place and takes the new value
RECURSIVE MapSet(_, _)
MapSet(m, v) ==
  IF m = <<>> THEN <<v>>
  ELSE IF Head(m).id = v.id THEN <<v>> \o Tail(m)
  ELSE <<Head(m)>> \o MapSet(Tail(m), v)

\* updatedVariants.forEach(v => prevMap.set(v.id, v)), also new Map(entries)
RECURSIVE MapSetAll(_, _)
MapSetAll(m, list) ==
  IF list = <<>> THEN m ELSE MapSetAll(MapSet(m, Head(list)), Tail(list))

\* App.handleValidationComplete: the functional update of setVariants
MergeValidated(prev, updatedVariants) ==
  SortByTimestampDesc(MapSetAll(MapSetAll(<<>>, prev), updatedVariants))

\* the two branches of the loop body of startSimulation
MarkFailed(v) == [v EXCEPT !.status = "failed", !.errorMessage = "error"]

\* shipping fees the simulation may draw from MOCK_SHIPPING (the list is
\* imported from '../constants'): a fee of 0, which handlers tell from a fee
\* that is charged, and one that is charged
ShippingSamples == {0, 40}

\* mutant: the record is built without the spread of the old one
MarkCompletedNoSpread(v, shipping) ==
  [v EXCEPT !.status = "completed", !.detectedPrice = "price",
            !.detectedShipping = shipping,
            !.config = [exportFormat |-> Absent, upscaleFactor |-> Undefined]]

MarkCompleted(v, shipping) ==
  [v EXCEPT !.status = "completed", !.detectedPrice = "price",
            !.detectedShipping = shipping]

\* click on 'Analyze Market Pricing' (disabled while isRunning or without
\* variants); runs up to the first 600 ms timer
StartSimulation ==
  /\ valid.mounted
  /\ ~valid.isRunning
  /\ Len(variants) > 0
  /\ \E k \in 1..MaxSims :
       /\ sims[k].pc = "idle"
       /\ \A j \in 1..(k - 1) : sims[j].pc # "idle"
       /\ sims' = [sims EXCEPT ![k] =
                     [pc |-> "sleep", attached |-> TRUE, i |-> 0,
                      snapshot |-> variants, updatedVariants |-> variants]]
  /\ valid' = [valid EXCEPT !.isRunning = TRUE]
  /\ UNCHANGED <<clock, store, dbQueue, activeSection, variants, clearKey,
                 isLoadingHistory, synth, loops, exps, lastAlert, expected,
                 lastWrite, lastClear, taggings, backgrounds, lastSave,
                 render>>

\* mutant: every marked item is also saved to the store
SimulationStepPersisting(k, isError, shipping) ==
  /\ sims[k].pc = "sleep"
  /\ LET i == sims[k].i + 1
         marked == IF isError THEN MarkFailed(sims[k].updatedVariants[i])
                   ELSE MarkCompleted(sims[k].updatedVariants[i], shipping)
         updated == [sims[k].updatedVariants EXCEPT ![i] = marked]
     IN /\ store' = StorePut(store, marked)
        /\ IF i < Len(sims[k].snapshot)
           THEN /\ sims' = [sims EXCEPT ![k].i = i,
                                        ![k].updatedVariants = updated]
                /\ valid' = IF sims[k].attached
                            THEN [valid EXCEPT !.results = updated]
                            ELSE valid
                /\ UNCHANGED <<variants, synth>>
           ELSE /\ sims' = [sims EXCEPT ![k] = [IdleSim EXCEPT !.pc = "done"]]
                /\ variants' = MergeValidated(variants, updated)
                /\ valid' = SyncResults(IF sims[k].attached
                                        THEN [valid EXCEPT !.isRunning = FALSE]
                                        ELSE valid, variants')
                /\ synth' = SyncLastBatch(synth, variants')
  /\ UNCHANGED <<clock, dbQueue, activeSection, clearKey,
                 isLoadingHistory, loops, exps, lastAlert, expected,
                 lastWrite, lastClear, taggings, backgrounds, lastSave,
                 render>>

\* the 600 ms timer of item i fires: the item is marked (isError and
\* shipping are the draws of Math.random()), and either the next timer is
\* started or the run ends with onValidationComplete(updatedVariants)
SimulationStep(k, isError, shipping) ==
  /\ sims[k].pc = "sleep"
  /\ LET i == sims[k].i + 1
         marked == IF isError THEN MarkFailed(sims[k].updatedVariants[i])
                   ELSE MarkCompleted(sims[k].updatedVariants[i], shipping)
         updated == [sims[k].updatedVariants EXCEPT ![i] = marked]
     IN IF i < Len(sims[k].snapshot)
        THEN /\ sims' = [sims EXCEPT ![k].i = i, ![k].updatedVariants = updated]
             /\ valid' = IF sims[k].attached
                         THEN [valid EXCEPT !.results = updated] ELSE valid
             /\ UNCHANGED <<variants, synth>>
        ELSE /\ sims' = [sims EXCEPT ![k] = [IdleSim EXCEPT !.pc = "done"]]
             /\ variants' = MergeValidated(variants, updated)
             /\ valid' = SyncResults(IF sims[k].attached
                                     THEN [valid EXCEPT !.isRunning = FALSE]
                                     ELSE valid, variants')
             /\ synth' = SyncLastBatch(synth, variants')
  /\ UNCHANGED <<clock, store, dbQueue, activeSection, clearKey,
                 isLoadingHistory, loops, exps, lastAlert, expected,
                 lastWrite, lastClear, taggings, backgrounds, lastSave,
                 render>>

\* ---- tagging: triggerAITagging and analyzeProductImage -------------------
\* the list the catch block of analyzeProductImage returns
FallbackTags == <<"E-commerce Product", "Batch Variation">>

\* response.text is held as the list of its pieces between commas
\* (text.split(',')); `response.text || ''` is the single empty piece
ResponseTexts ==
  {<<"">>, <<"cotton">>, <<" red ", "">>, <<"Shirt", " cotton">>}

\* tag.trim()
Trim(piece) ==
  CASE piece = " red " -> "red"
    [] piece = " cotton" -> "cotton"
    [] piece = " " -> ""
    [] OTHER -> piece

\* tag.charAt(0).toUpperCase() + tag.slice(1)
Capitalise(tag) ==
  CASE tag = "red" -> "Red"
    [] tag = "cotton" -> "Cotton"
    [] OTHER -> tag

\* text.split(',').map(trim).filter(tag => tag.length > 0).map(capitalise)
ParseTags(text) ==
  LET trimmed == [k \in DOMAIN text |-> Trim(text[k])]
      kept == SelectSeq(trimmed, LAMBDA t : t # "")
  IN  [k \in DOMAIN kept |-> Capitalise(kept[k])]

\* analyzeProductImage resolves with `tags`; triggerAITagging continues:
\* setTags(suggestedTags), (setProductName writes a form field), and
\* finally setIsTagging(false)
ResolveTagging(k, tags) ==
  /\ taggings' = [taggings EXCEPT ![k].pc = "done",
                                  ![k].settled = "resolved",
                                  ![k].result = tags]
  /\ synth' = IF taggings[k].attached
              THEN [synth EXCEPT !.tags = tags, !.isTagging = FALSE]
              ELSE synth

TaggingFrame ==
  /\ UNCHANGED <<valid, sims, backgrounds, lastSave, render>>
  /\ UNCHANGED <<clock, store, dbQueue, activeSection, variants, clearKey,
                 isLoadingHistory, loops, exps, lastAlert, expected,
                 lastWrite, lastClear>>

\* a file is chosen in the upload form: handleImageUpload creates the
\* reader and calls reader.readAsDataURL(file)
HandleImageUpload ==
  /\ synth.mounted
  /\ \E k \in 1..MaxTaggings :
       /\ taggings[k].pc = "idle"
       /\ \A j \in 1..(k - 1) : taggings[j].pc # "idle"
       /\ taggings' = [taggings EXCEPT ![k] =
                         [IdleTagging EXCEPT !.pc = "reading",
                                             !.attached = TRUE]]
  /\ UNCHANGED synth
  /\ TaggingFrame

\* reader.onload of the upload k: setBaseImage, setOriginalImage (and
\* setGeneratedMasters([])) on the instance that chose the file, if it is
\* still mounted, and triggerAITagging up to its await.
\* analyzeProductImage builds the client outside its try block: with a
\* constructor that throws (ctorOk = FALSE) its promise is rejected at once,
\* and triggerAITagging catches, logs and runs setIsTagging(false) before the
\* task ends.
ReaderOnload(k, ctorOk) ==
  /\ taggings[k].pc = "reading"
  /\ taggings' = [taggings EXCEPT
                    ![k].pc = IF ctorOk THEN "generateContent" ELSE "done",
                    ![k].settled = IF ctorOk THEN "none" ELSE "rejected"]
  /\ synth' = IF taggings[k].attached
              THEN [synth EXCEPT !.baseImage = UploadedImage,
                                 !.originalImage = UploadedImage,
                                 !.isTagging = ctorOk]
              ELSE synth
  /\ TaggingFrame

\* ai.models.generateContent resolves with a response of the given text
GenerateContentOk(k, text) ==
  /\ taggings[k].pc = "generateContent"
  /\ ResolveTagging(k, ParseTags(text))
  /\ TaggingFrame

\* ai.models.generateContent rejects (or reading the response throws):
\* the catch block of analyzeProductImage returns the fallback list
GenerateContentFail(k) ==
  /\ taggings[k].pc = "generateContent"
  /\ ResolveTagging(k, FallbackTags)
  /\ TaggingFrame

\* ---- background: handleGenerateBackground and generateProductBackground --
BackgroundFrame ==
  /\ UNCHANGED <<valid, sims, taggings, lastSave, render>>
  /\ UNCHANGED <<clock, store, dbQueue, activeSection, variants, clearKey,
                 isLoadingHistory, loops, exps, expected, lastWrite,
                 lastClear>>

\* click on a preset or on the custom-prompt button (disabled while
\* isGeneratingBG), up to `await generateProductBackground(...)`.
\* generateProductBackground builds the client outside its try block: with a
\* constructor that throws
\* (ctorOk = FALSE) its promise is rejected at once, and the handler alerts
\* "Background generation failure." and runs setIsGeneratingBG(false) before
\* the task of the click ends.
HandleGenerateBackground(ctorOk) ==
  /\ synth.mounted
  /\ ~synth.isGeneratingBG
  /\ synth.originalImage # NoImage
  /\ IF ctorOk
     THEN /\ \E k \in 1..MaxBackgrounds :
               /\ backgrounds[k].pc = "idle"
               /\ \A j \in 1..(k - 1) : backgrounds[j].pc # "idle"
               /\ backgrounds' = [backgrounds EXCEPT ![k] =
                                    [IdleBackground EXCEPT
                                       !.pc = "generateContent",
                                       !.attached = TRUE]]
          /\ synth' = [synth EXCEPT !.isGeneratingBG = TRUE]
          /\ UNCHANGED lastAlert
     ELSE /\ lastAlert' = "backgroundError"
          /\ UNCHANGED <<synth, backgrounds>>
  /\ BackgroundFrame

\* generateProductBackground resolves: with a picture (found = TRUE) when
\* the response holds an inlineData part, else with null, as it does when
\* generateContent rejects.  The handler puts a picture in front of
\* generatedMasters and makes it the base image, then
\* setIsGeneratingBG(false).
BackgroundSettled(k, found) ==
  /\ backgrounds[k].pc = "generateContent"
  /\ backgrounds' = [backgrounds EXCEPT
                       ![k].pc = "done",
                       ![k].result = IF found THEN "picture" ELSE "null"]
  /\ synth' = IF backgrounds[k].attached
              THEN [synth EXCEPT !.isGeneratingBG = FALSE,
                                 !.baseImage = IF found THEN GeneratedMaster
                                               ELSE @]
              ELSE synth
  /\ UNCHANGED lastAlert
  /\ BackgroundFrame

\* ---- specification -------------------------------------------------------
\* The application with its store, its batch and its purges: one picture is
\* uploaded, one batch of any count is started from the form, the purges are
\* those of the settings page and of the workspace reset.  The file exports
\* and the purge that follows a bulk export are part of SpecExport, a second
\* upload and a second batch are part of SpecRemount.
Next ==
  \/ \E s \in Sections : SetActiveSection(s)
  \/ taggings[1].pc = "idle" /\ HandleImageUpload
  \/ \E k \in 1..MaxTaggings, ctorOk \in BOOLEAN : ReaderOnload(k, ctorOk)
  \/ \E k \in 1..MaxTaggings : GenerateContentOk(k, <<"cotton">>)
  \/ \E k \in 1..MaxTaggings : GenerateContentFail(k)
  \/ \E hasName \in BOOLEAN, n \in VariantCounts :
       loops[1].pc = "idle" /\ HandleGenerate(hasName, n)
  \/ \E l \in 1..MaxLoops : LoadImageOk(l)
  \/ \E l \in 1..MaxLoops : LoadImageFail(l)
  \/ \E l \in 1..MaxLoops : SleepDone(l)
  \/ DbPutOk
  \/ DbPutFail
  \/ DbPutAbort
  \/ SettingsPurge
  \/ HandleClear
  \/ DbClearOk
  \/ DbClearFail
  \/ DbClearAbort
  \/ DbGetAllOk
  \/ DbGetAllFail

Spec == Init /\ [][Next]_vars

\* The application with the validator: one picture is uploaded, one batch is
\* started from the form, one validation run is started, the purge is the
\* one of the settings page, and nothing is exported.  Repeated validation
\* runs are part of SpecInsights.
NextValidation ==
  \/ \E s \in Sections : SetActiveSection(s)
  \/ taggings[1].pc = "idle" /\ HandleImageUpload
  \/ \E k \in 1..MaxTaggings, ctorOk \in BOOLEAN : ReaderOnload(k, ctorOk)
  \/ \E k \in 1..MaxTaggings : GenerateContentOk(k, <<"cotton">>)
  \/ \E k \in 1..MaxTaggings : GenerateContentFail(k)
  \/ \E hasName \in BOOLEAN, n \in VariantCounts :
       loops[1].pc = "idle" /\ HandleGenerate(hasName, n)
  \/ \E l \in 1..MaxLoops : LoadImageOk(l)
  \/ \E l \in 1..MaxLoops : LoadImageFail(l)
  \/ \E l \in 1..MaxLoops : SleepDone(l)
  \/ DbPutOk
  \/ DbPutFail
  \/ DbPutAbort
  \/ SettingsPurge
  \/ DbClearOk
  \/ DbClearFail
  \/ DbClearAbort
  \/ DbGetAllOk
  \/ DbGetAllFail
  \/ sims[1].pc = "idle" /\ StartSimulation
  \/ \E k \in 1..MaxSims, isError \in BOOLEAN, shipping \in ShippingSamples :
       SimulationStep(k, isError, shipping)

SpecValidation == Init /\ [][NextValidation]_vars

\* The application with its file exports: the store holds what a former
\* session has left, one picture is uploaded, one batch is started from the
\* form, and the only purge is the one that follows a bulk export.
InitExport == InitFrom(ExportedStores)

NextExport ==
  \/ \E s \in Sections : SetActiveSection(s)
  \/ taggings[1].pc = "idle" /\ HandleImageUpload
  \/ \E k \in 1..MaxTaggings, ctorOk \in BOOLEAN : ReaderOnload(k, ctorOk)
  \/ \E k \in 1..MaxTaggings : GenerateContentOk(k, <<"cotton">>)
  \/ \E k \in 1..MaxTaggings : GenerateContentFail(k)
  \/ \E hasName \in BOOLEAN, n \in VariantCounts :
       loops[1].pc = "idle" /\ HandleGenerate(hasName, n)
  \/ \E l \in 1..MaxLoops : LoadImageOk(l)
  \/ \E l \in 1..MaxLoops : LoadImageFail(l)
  \/ \E l \in 1..MaxLoops : SleepDone(l)
  \/ DbPutOk
  \/ DbPutFail
  \/ DbPutAbort
  \/ \E c \in BOOLEAN : DownloadBatchSequentially(c)
  \/ \E e \in 1..MaxExports : ExportNextItem(e)
  \/ \E e \in 1..MaxExports : ExportPurge(e)
  \/ \E e \in 1..MaxExports : ExportDone(e)
  \/ \E k \in 1..(MaxCount + 2) : DownloadSingle(k)
  \/ ExportListings
  \/ DbClearOk
  \/ DbClearFail
  \/ DbClearAbort
  \/ DbGetAllOk
  \/ DbGetAllFail

SpecExport == InitExport /\ [][NextExport]_vars

\* The application with every file it saves: the store holds what a former
\* session has left, the variants are validated, and files are saved from
\* the synthesizer, the validator and the insights page.
NextInsights ==
  \/ \E s \in Sections : SetActiveSection(s)
  \/ DbGetAllOk
  \/ DbGetAllFail
  \/ StartSimulation
  \/ \E k \in 1..MaxSims, isError \in BOOLEAN, shipping \in ShippingSamples :
       SimulationStep(k, isError, shipping)
  \/ DownloadBatchSequentially(FALSE)
  \/ \E e \in 1..MaxExports : ExportNextItem(e)
  \/ \E e \in 1..MaxExports : ExportDone(e)
  \/ \E k \in 1..(MaxCount + 2) : DownloadSingle(k)
  \/ ExportListings
  \/ HandleDownloadBest
  \/ HandleExportBestMetadata
  \/ HandleExportAll

SpecInsights == InitExport /\ [][NextInsights]_vars

\* The application across remounts of the synthesizer: a picture is uploaded
\* in an instance of the form and a batch of one variant is started from
\* that instance, in each of two instances; the purge is the one of the
\* settings page, and nothing is exported.
NextRemount ==
  \/ \E s \in Sections : SetActiveSection(s)
  \/ HandleImageUpload
  \/ \E k \in 1..MaxTaggings, ctorOk \in BOOLEAN : ReaderOnload(k, ctorOk)
  \/ \E k \in 1..MaxTaggings : GenerateContentOk(k, <<"cotton">>)
  \/ \E hasName \in BOOLEAN : HandleGenerate(hasName, CountUnit)
  \/ \E l \in 1..MaxLoops : LoadImageOk(l)
  \/ \E l \in 1..MaxLoops : LoadImageFail(l)
  \/ \E l \in 1..MaxLoops : SleepDone(l)
  \/ DbPutOk
  \/ DbPutFail
  \/ DbPutAbort
  \/ SettingsPurge
  \/ DbClearOk
  \/ DbClearFail
  \/ DbClearAbort
  \/ DbGetAllOk
  \/ DbGetAllFail

SpecRemount == Init /\ [][NextRemount]_vars

\* ==== claims ================================================================

Ids(list) == {list[k].id : k \in 1..Len(list)}

DistinctIds(list) ==
  \A j, k \in 1..Len(list) : j # k => list[j].id # list[k].id

\* C1: after any sequence of completed puts and clears, getAllVariantsFromDB
\* returns exactly one entry per id put since the last clear, and that entry
\* is the variant most recently put under the id.
StoreIsLastPutPerId ==
  LET all == GetAllVariants(store)
  IN /\ DistinctIds(all)
     /\ Len(all) = Cardinality(expected)
     /\ \A v \in expected : InStore(all, v)

\* C1 witness: two invocations saved different variants under one id and the
\* store holds the one saved last, alone under that id.
StoreOverwroteSameId ==
  \E a, b \in 1..MaxLoops :
    /\ a # b
    /\ loops[a].pc = "sleep"
    /\ loops[b].pc = "sleep"
    /\ \E j \in 1..Len(loops[a].newVariants),
          k \in 1..Len(loops[b].newVariants) :
         /\ loops[a].newVariants[j].id = loops[b].newVariants[k].id
         /\ loops[a].newVariants[j] # loops[b].newVariants[k]
         /\ InStore(store, loops[b].newVariants[k])
         /\ ~InStore(store, loops[a].newVariants[j])

\* C2: when the last completed write to the store is a clear, getAll returns
\* the empty collection.
ClearThenGetAllEmpty ==
  lastWrite = "clear" => GetAllVariants(store) = <<>>

\* C2 witness: a batch had saved a variant, a clear completed after it and no
\* put followed.
ClearedAfterSave ==
  /\ lastWrite = "clear"
  /\ \E l \in 1..MaxLoops :
       loops[l].pc = "sleep" /\ loops[l].newVariants # <<>>

\* the step in which the invocation in slot l hands its list to App
DeliveredNow(l) ==
  /\ loops[l].pc # "done"
  /\ loops'[l].pc = "done"
  /\ loops'[l].delivered

\* the passes of `for (let i = 0; i < variantCount; i++)`
ItemsOf(count) == (count + CountUnit - 1) \div CountUnit

\* C3 (as claimed): a run of the batch loop with count N >= 1 that succeeds
\* has called generateVariant exactly N times and hands App a list of exactly
\* N variants with pairwise distinct ids, in creation order (index 0 first).
BatchDeliversCountInOrder ==
  [][\A l \in 1..MaxLoops :
       (DeliveredNow(l) /\ loops[l].count >= CountUnit) =>
         LET nv == loops[l].newVariants
         IN /\ loops[l].calls * CountUnit = loops[l].count
            /\ Len(nv) * CountUnit = loops[l].count
            /\ DistinctIds(nv)
            /\ \A k \in 1..Len(nv) : nv[k].id[2] = k - 1
            /\ \A k \in 1..(Len(nv) - 1) :
                 nv[k].timestamp <= nv[k + 1].timestamp
            /\ Len(variants') >= Len(nv)
            /\ SubSeq(variants', 1, Len(nv)) = nv]_vars

\* C4 (as claimed): at most one generateVariant call is in progress.
AtMostOneGenerateVariant ==
  Cardinality({l \in 1..MaxLoops : loops[l].pc = "saving"}) <= 1

\* C5 (as claimed): App's variant list never holds two entries with one id.
VariantsHaveDistinctIds == DistinctIds(variants)

\* the step in which generateVariant returns to the loop in slot l
ReturnedNow(l) ==
  /\ loops[l].pc = "saving"
  /\ loops'[l].pc = "sleep"

\* C6: the variant generateVariant returns has status 'pending' and is in the
\* store under its id when the call returns.
ReturnedVariantIsSaved ==
  [][\A l \in 1..MaxLoops :
       ReturnedNow(l) =>
         LET nv == loops'[l].newVariants
             v == nv[Len(nv)]
         IN /\ Len(nv) = Len(loops[l].newVariants) + 1
            /\ v = loops[l].cur
            /\ v.status = "pending"
            /\ InStore(GetAllVariants(store'), v)
            /\ DistinctIds(GetAllVariants(store'))]_vars

\* C6 witness: a loop holds a returned variant that is in the store.
ReturnedVariantInStore ==
  \E l \in 1..MaxLoops :
    /\ loops[l].pc = "sleep"
    /\ loops[l].newVariants # <<>>
    /\ InStore(store, loops[l].newVariants[Len(loops[l].newVariants)])

\* C7 (as claimed): a batch in which a save failed still generates all its
\* variants and delivers them to App.
SaveFailureKeepsBatch ==
  \A l \in 1..MaxLoops :
    (loops[l].pc = "done" /\ loops[l].saveFailed) =>
      (loops[l].delivered /\ loops[l].calls = ItemsOf(loops[l].count))

\* C8: once a generateVariant call of a batch has failed, the batch makes no
\* further call and is over without a delivery; at the failing step and ever
\* after, every variant the batch had produced is in the store, unless a
\* later purge has deleted it or a later save under its id has replaced it
\* (expected holds the last variant put under each id since the last
\* completed clear).
FailureHaltsBatch ==
  [][\A l \in 1..MaxLoops :
       /\ loops[l].failed =>
            /\ loops'[l].pc = "done"
            /\ loops'[l].calls = loops[l].calls
            /\ loops'[l].newVariants = loops[l].newVariants
            /\ ~loops'[l].delivered
       /\ (~loops[l].failed /\ loops'[l].failed) =>
            /\ loops'[l].pc = "done"
            /\ loops'[l].newVariants = loops[l].newVariants
            /\ store' = store
       /\ loops'[l].failed =>
            \A k \in 1..Len(loops'[l].newVariants) :
              loops'[l].newVariants[k] \in expected' =>
                InStore(store', loops'[l].newVariants[k])]_vars

\* C8 witness: a batch failed at its second item, and the variant of its
\* first item is in the store.
BatchFailedAfterFirstItem ==
  \E l \in 1..MaxLoops :
    /\ loops[l].pc = "done"
    /\ loops[l].failed
    /\ loops[l].calls = 2
    /\ Len(loops[l].newVariants) = 1
    /\ InStore(store, loops[l].newVariants[1])

\* C9 (as claimed): when the clear of a purge fails, by an error or by an
\* abort of its transaction, the user is shown the storage error, whichever
\* path started the purge, and no success message.
PurgeFailureAlerted ==
  lastClear.outcome \in {"failed", "aborted"} => lastAlert = "clearError"

\* C10 (as claimed): every clear request was confirmed by the user for that
\* purge.
EveryClearConfirmed ==
  \A k \in 1..Len(dbQueue) :
    dbQueue[k].op = "clear" => dbQueue[k].confirmed

\* ---- validation ---------------------------------------------------------
Range(list) == {list[k] : k \in 1..Len(list)}

\* a startSimulation run ends in this step and hands its result to App
ValidationCompletes ==
  \E k \in 1..MaxSims : sims[k].pc = "sleep" /\ sims'[k].pc = "done"

\* C11: a variant is created and stored with status 'pending'; a step that
\* is not the end of a validation run adds only 'pending' records to the
\* in-memory list and leaves every validated record as it is (or removes its
\* id from the list); the end of a validation run adds only records whose
\* status is 'completed' or 'failed'.
StatusChangesOnlyByValidation ==
  [][/\ \A k \in 1..Len(store') : store'[k].status = "pending"
     /\ \A l \in 1..MaxLoops :
          /\ loops'[l].cur.status \in {"pending", "none"}
          /\ \A k \in 1..Len(loops'[l].newVariants) :
               loops'[l].newVariants[k].status = "pending"
     /\ ~ValidationCompletes =>
          /\ \A k \in 1..Len(variants') :
               \/ variants'[k] \in Range(variants)
               \/ variants'[k].status = "pending"
          /\ \A j \in 1..Len(variants) :
               variants[j].status # "pending" =>
                 \/ variants[j] \in Range(variants')
                 \/ variants[j].id \notin Ids(variants')
     /\ ValidationCompletes =>
          \A k \in 1..Len(variants') :
            \/ variants'[k] \in Range(variants)
            \/ variants'[k].status \in {"completed", "failed"}
    ]_vars

\* C12: a variant of the in-memory list carries an errorMessage only if its
\* status is 'failed'.
ErrorMessageOnlyOnFailed ==
  \A k \in 1..Len(variants) :
    variants[k].errorMessage # Absent => variants[k].status = "failed"

\* the fields generateVariant fixes
Core(v) == <<v.id, v.dataUrl, v.config, v.tags>>

\* every variant record a handler or the store holds
AllRecords ==
  UNION {Range(variants), Range(store), Range(synth.lastBatch),
         Range(valid.results),
         UNION {Range(loops[l].newVariants) : l \in 1..MaxLoops},
         {loops[l].cur : l \in {k \in 1..MaxLoops : loops[k].pc = "saving"}},
         UNION {Range(sims[k].updatedVariants) : k \in 1..MaxSims},
         UNION {Range(sims[k].snapshot) : k \in 1..MaxSims},
         UNION {Range(exps[e].batch) : e \in 1..MaxExports}}

\* C13: no step changes the id, dataUrl, config or tags of a variant: the
\* four fields of every record held after a step are those of a record held
\* before it, or those generateVariant has set in this step.
CoreFieldsNeverChange ==
  [][{Core(v) : v \in AllRecords'} \subseteq
       {Core(v) : v \in AllRecords} \cup
       {Core(loops'[l].cur) :
          l \in {k \in 1..MaxLoops :
                   loops[k].pc # "saving" /\ loops'[k].pc = "saving"}}]_vars

\* witness of C13: a variant was saved, delivered, validated and merged
ValidatedVariantStored ==
  \E k \in 1..Len(variants), j \in 1..Len(store) :
    /\ variants[k].status = "completed"
    /\ store[j].id = variants[k].id
    /\ Core(store[j]) = Core(variants[k])

\* ---- export -------------------------------------------------------------
\* the literal in front of the id part of a file name, by kind of export
FilePrefix(kind) ==
  IF kind = "bulk"
  THEN <<"c", "l", "o", "a", "k", "e", "d", "-", "a", "s", "s", "e", "t", "-">>
  ELSE IF kind = "single" THEN <<"v", "-">>
  ELSE IF kind = "master"
  THEN <<"o", "p", "t", "i", "m", "i", "z", "e", "d", "-",
         "m", "a", "s", "t", "e", "r", "-">>
  ELSE <<"c", "l", "o", "a", "k", "e", "d", "_", "o", "p", "t", "_">>

\* C14: every file name given to the picture of a variant by the bulk
\* export, a single download (of the results buffer or of the insights page)
\* or the CSV export is the literal of that export, the segment of the id
\* after its last '-', and '.png' for the export format 'image/png', '.jpg'
\* for 'image/jpeg'.
FilenamesFollowConvention ==
  \A j \in 1..Len(lastSave.files) :
    LET v == lastSave.files[j].variant
    IN lastSave.kind # "metadata" =>
       /\ v.config.exportFormat \in {"image/png", "image/jpeg"}
       /\ lastSave.files[j].name =
            FilePrefix(lastSave.kind) \o LastSegment(IdString(v.id)) \o <<".">>
            \o (IF v.config.exportFormat = "image/png"
                THEN <<"p", "n", "g">> ELSE <<"j", "p", "g">>)

\* C15: a bulk export saves the items of its batch one by one in list
\* order, each but the first after the pause of the one before it, and has
\* saved every item once when its loop has ended.
BulkExportSavesInOrder ==
  [][\A e \in 1..MaxExports :
       /\ Len(exps'[e].saved) <= Len(exps'[e].batch)
       /\ \A j \in 1..Len(exps'[e].saved) :
            exps'[e].saved[j].variant = exps'[e].batch[j]
       /\ exps'[e].pc \in {"purging", "done"} =>
            Len(exps'[e].saved) = Len(exps'[e].batch)
       /\ exps'[e].saved # exps[e].saved =>
            /\ Len(exps'[e].saved) = Len(exps[e].saved) + 1
            /\ exps[e].pc = (IF exps[e].saved = <<>> THEN "idle" ELSE "sleep")
    ]_vars

\* witness of C15: an export of two different variants has ended
ExportOfTwoEnded ==
  \E e \in 1..MaxExports :
    /\ exps[e].pc = "done"
    /\ Len(exps[e].saved) = 2
    /\ exps[e].batch[1] # exps[e].batch[2]

\* C16: while the mounted synthesizer shows an export in progress, the
\* progress it reports is (files saved by that export) / (size of the batch).
ExportProgressCountsSaves ==
  /\ synth.isBatchDownloading =>
       \E e \in 1..MaxExports :
         /\ exps[e].attached
         /\ exps[e].pc \in {"sleep", "purging", "hung"}
         /\ synth.exportProgress = <<Len(exps[e].saved), Len(exps[e].batch)>>
  /\ ~synth.isBatchDownloading => synth.exportProgress = <<0, 1>>

\* witness of C16: an export is half way through its batch
ExportHalfWay ==
  /\ synth.isBatchDownloading
  /\ synth.exportProgress = <<1, 2>>

\* ---- progress of a batch ------------------------------------------------
\* the batch of slot l runs and reports to the mounted synthesizer
Reporting(l, ls) ==
  ls[l].attached /\ ls[l].pc \in {"loadImage", "saving", "sleep"}

\* fractions <<numerator, denominator>>
FracEq(a, b) == a[1] * b[2] = b[1] * a[2]

FracLeq(a, b) == a[1] * b[2] <= b[1] * a[2]

\* C17 (as claimed): while a batch of count N >= 1 runs, the progress it
\* reports is (variants completed) / N; it never decreases during the batch,
\* and it is 100% exactly when the last variant of the batch is completed.
BatchProgressFollowsItems ==
  [][\A l \in 1..MaxLoops :
       (Reporting(l, loops') /\ loops'[l].count >= CountUnit) =>
         /\ synth'.isGenerating
         /\ FracEq(synth'.progress,
                   <<Len(loops'[l].newVariants) * CountUnit, loops'[l].count>>)
         /\ Reporting(l, loops) => FracLeq(synth.progress, synth'.progress)
         /\ (synth'.progress[1] = synth'.progress[2]) <=>
              (Len(loops'[l].newVariants) = ItemsOf(loops'[l].count))
    ]_vars

\* The application with image uploads: tags are suggested for each upload,
\* backgrounds are generated, and one batch of one variant is started from
\* the form.
NextTagging ==
  \/ \E s \in Sections : SetActiveSection(s)
  \/ HandleImageUpload
  \/ \E k \in 1..MaxTaggings, ctorOk \in BOOLEAN : ReaderOnload(k, ctorOk)
  \/ \E k \in 1..MaxTaggings, text \in ResponseTexts :
       GenerateContentOk(k, text)
  \/ \E k \in 1..MaxTaggings : GenerateContentFail(k)
  \/ \E ctorOk \in BOOLEAN : HandleGenerateBackground(ctorOk)
  \/ \E k \in 1..MaxBackgrounds, found \in BOOLEAN : BackgroundSettled(k, found)
  \/ \E hasName \in BOOLEAN :
       loops[1].pc = "idle" /\ HandleGenerate(hasName, CountUnit)
  \/ \E l \in 1..MaxLoops : LoadImageOk(l)
  \/ \E l \in 1..MaxLoops : LoadImageFail(l)
  \/ \E l \in 1..MaxLoops : SleepDone(l)
  \/ DbPutOk
  \/ DbPutFail
  \/ DbPutAbort
  \/ DbGetAllOk
  \/ DbGetAllFail

SpecTagging == Init /\ [][NextTagging]_vars

\* the tagging collaborator of invocation k fails in this step: its
\* generateContent call rejects, or the construction of its client throws
\* within the upload that starts the invocation
CollaboratorFails(k) ==
  \/ GenerateContentFail(k)
  \/ ReaderOnload(k, FALSE)

\* C18: when the tagging collaborator fails (the construction of its client
\* throws, or its generateContent call rejects), analyzeProductImage resolves
\* with the fallback list and never rejects; for the mounted workflow that
\* list becomes the current tags and the tagging flag is reset, and nothing
\* else of the workflow changes.
TaggingFailureFallsBack ==
  [][\A k \in 1..MaxTaggings :
       CollaboratorFails(k) =>
         /\ taggings'[k].settled = "resolved"
         /\ taggings'[k].result = FallbackTags
         /\ taggings[k].attached =>
              /\ synth'.tags = FallbackTags
              /\ synth'.isTagging = FALSE
         /\ UNCHANGED <<variants, loops, activeSection, lastAlert>>
    ]_vars

\* ---- raster size: generateVariant called with any image and options ------
\* the arguments of one call: a decoded image and the options that decide
\* the size and the encoding
\* opacities a caller may pass: none, a negative one, 0, the default of the
\* form, 1, and one above 1
OpacitySamples == {Undefined, -50, 0, 4, 100, 150}

SizingInputs ==
  [pc : {"ready"},
   img : [width : 1..MaxDim, height : 1..MaxDim],
   options : [exportFormat : {Absent, "image/jpeg", "image/png"},
              upscaleFactor : {Undefined} \cup (0..MaxScale),
              opacity : OpacitySamples,
              tags : {<<>>}],
   variant : {NoVariant}]

\* the history of an empty store has been read; generateVariant is about to
\* be called
InitSizing ==
  /\ clock = 0
  /\ store = <<>>
  /\ dbQueue = <<>>
  /\ activeSection = "synthesizer"
  /\ variants = <<>>
  /\ clearKey = 0
  /\ isLoadingHistory = FALSE
  /\ synth = FreshSynth(<<>>)
  /\ loops = [l \in 1..MaxLoops |-> IdleLoop]
  /\ exps = [e \in 1..MaxExports |-> IdleExp]
  /\ lastAlert = "none"
  /\ expected = {}
  /\ lastWrite = "none"
  /\ lastClear = [outcome |-> "none", path |-> "none"]
  /\ valid = NoValid
  /\ sims = [k \in 1..MaxSims |-> IdleSim]
  /\ taggings = [k \in 1..MaxTaggings |-> IdleTagging]
  /\ backgrounds = [k \in 1..MaxBackgrounds |-> IdleBackground]
  /\ lastSave = NoSave
  /\ render \in SizingInputs

SizingFrame ==
  UNCHANGED <<dbQueue, activeSection, variants, clearKey, isLoadingHistory,
              synth, loops, exps, lastAlert, lastClear, valid, sims,
              taggings, backgrounds, lastSave>>

\* a canvas without a pixel: its width or its height is 0
EmptyRaster(size) == size.width = 0 \/ size.height = 0

\* generateVariant up to `await saveVariantToDB(variant)`: the canvas is
\* sized, drawn and encoded, and the variant literal is built
RenderVariant ==
  /\ render.pc = "ready"
  /\ ~EmptyRaster(CanvasSize(render.img, render.options))
  /\ \E ts \in clock..MaxClock :
       /\ clock' = ts
       /\ render' = [render EXCEPT
                       !.pc = "saving",
                       !.variant = MakeVariant(0, 0, ts, render.img,
                                               render.options)]
  /\ UNCHANGED <<store, expected, lastWrite>>
  /\ SizingFrame

\* canvas.getContext('2d') returns null: 'Could not get canvas context'
RenderNoContext ==
  /\ render.pc = "ready"
  /\ render' = [render EXCEPT !.pc = "rejected"]
  /\ UNCHANGED <<clock, store, expected, lastWrite>>
  /\ SizingFrame

\* the canvas has no pixel: ctx.getImageData(0, 0, canvas.width,
\* canvas.height) throws IndexSizeError (with marketCloaking the drawImage of
\* the empty tempCanvas throws InvalidStateError before it), generateVariant
\* rejects and nothing is saved
RenderEmptyRaster ==
  /\ render.pc = "ready"
  /\ EmptyRaster(CanvasSize(render.img, render.options))
  /\ render' = [render EXCEPT !.pc = "rejected"]
  /\ UNCHANGED <<clock, store, expected, lastWrite>>
  /\ SizingFrame

\* saveVariantToDB resolves: generateVariant returns the variant
RenderSaveOk ==
  /\ render.pc = "saving"
  /\ store' = StorePut(store, render.variant)
  /\ expected' = {w \in expected : w.id # render.variant.id}
                   \cup {render.variant}
  /\ lastWrite' = "put"
  /\ render' = [render EXCEPT !.pc = "returned"]
  /\ UNCHANGED clock
  /\ SizingFrame

\* saveVariantToDB rejects: generateVariant rejects
RenderSaveFail ==
  /\ render.pc = "saving"
  /\ render' = [render EXCEPT !.pc = "rejected", !.variant = NoVariant]
  /\ UNCHANGED <<clock, store, expected, lastWrite>>
  /\ SizingFrame

\* the transaction is aborted at its commit: saveVariantToDB never settles
\* and generateVariant neither returns nor rejects
RenderSaveAbort ==
  /\ render.pc = "saving"
  /\ render' = [render EXCEPT !.pc = "hung"]
  /\ UNCHANGED <<clock, store, expected, lastWrite>>
  /\ SizingFrame

NextSizing ==
  \/ RenderVariant
  \/ RenderNoContext
  \/ RenderEmptyRaster
  \/ RenderSaveOk
  \/ RenderSaveFail
  \/ RenderSaveAbort

SpecSizing == InitSizing /\ [][NextSizing]_vars

\* the upscaleFactor a call asks for, an absent one counting as 1
AskedScale(options) ==
  IF options.upscaleFactor = Undefined THEN ScaleUnit
  ELSE options.upscaleFactor

\* n is the product of side and scale (in units of 1/ScaleUnit) rounded down
IsFloorOf(n, side, scale) ==
  /\ n * ScaleUnit <= side * scale
  /\ side * scale < (n + 1) * ScaleUnit

\* C20: for a source of width W and height H and an upscaleFactor s >= 1, the
\* raster of the variant generateVariant returns is W*s wide and H*s high,
\* rounded down; an absent upscaleFactor behaves as s = 1, and the config of
\* the variant records the same s.
RasterSizeIsScaledFloor ==
  (render.pc = "returned" /\ AskedScale(render.options) >= ScaleUnit) =>
    LET s == AskedScale(render.options)
        v == render.variant
    IN  /\ IsFloorOf(v.dataUrl.size.width, render.img.width, s)
        /\ IsFloorOf(v.dataUrl.size.height, render.img.height, s)
        /\ v.config.upscaleFactor = s
        /\ store = <<v>>

\* witness of C20: a returned variant whose width had a fraction of one half
\* to drop, with a factor above 1
RasterFractionDropped ==
  /\ render.pc = "returned"
  /\ render.options.upscaleFactor > ScaleUnit
  /\ (2 * render.img.width * render.options.upscaleFactor) % (2 * ScaleUnit)
       = ScaleUnit
  /\ render.variant.dataUrl.size.width * ScaleUnit
       < render.img.width * render.options.upscaleFactor

\* C22: the opacity in the config of every generated variant lies in [0, 1],
\* whatever opacity the caller passes; with no opacity passed, the default
\* lies in (0, 0.1].
OpacityWithinUnitRange ==
  render.pc = "returned" =>
    /\ render.variant.config.opacity >= 0
    /\ render.variant.config.opacity <= OpacityUnit
    /\ render.options.opacity = Undefined =>
         /\ render.variant.config.opacity > 0
         /\ 10 * render.variant.config.opacity <= OpacityUnit

\* ---- noise stage of generateVariant --------------------------------------
\* textureIntensity is counted in units of 1/IntensityUnit and a value of
\* Math.random() in units of 1/RandSteps
IntensityUnit == 100
RandSteps == 16

\* the factor of `noiseLevel * 15`
NoiseFactor == 15

\* const noiseLevel = options.textureIntensity || 0.05
NoiseLevel(options) ==
  IF options.textureIntensity = Undefined \/ options.textureIntensity = 0
  THEN 5
  ELSE options.textureIntensity

\* the denominator of a noise value held as a fraction
NoiseDen == 2 * RandSteps * IntensityUnit

\* (Math.random() - 0.5) * (noiseLevel * 15), as a numerator over NoiseDen
NoiseOf(rand, level) == (2 * rand - RandSteps) * level * NoiseFactor

\* the store of a number into a Uint8ClampedArray: clamped to [0, 255] and
\* rounded to the nearest integer, a tie to the even one; num is the
\* numerator of the number over NoiseDen
ToUint8Clamp(num) ==
  IF num <= 0 THEN 0
  ELSE IF num >= 255 * NoiseDen THEN 255
  ELSE LET f == num \div NoiseDen
           rest == num % NoiseDen
       IN  IF 2 * rest > NoiseDen THEN f + 1
           ELSE IF 2 * rest < NoiseDen THEN f
           ELSE IF f % 2 = 0 THEN f ELSE f + 1

\* data[i] = Math.min(255, Math.max(0, data[i] + noise))
Channel(v, noise) ==
  LET num == v * NoiseDen + noise
      lower == IF num < 0 THEN 0 ELSE num
      upper == IF lower > 255 * NoiseDen THEN 255 * NoiseDen ELSE lower
  IN  ToUint8Clamp(upper)

\* 254 + Math.round(Math.random())
AlphaMark(rand) == 254 + (IF 2 * rand >= RandSteps THEN 1 ELSE 0)

\* one pass of the loop over the image data: the pixel p (1-based) starts at
\* the byte i = 4 * (p - 1); one noise value serves its three colours
NoisePixel(px, p, rand, alphaRand, options) ==
  LET noise == NoiseOf(rand, NoiseLevel(options))
      i == 4 * (p - 1)
  IN  <<Channel(px[1], noise), Channel(px[2], noise), Channel(px[3], noise),
        IF i % 100 = 0 THEN AlphaMark(alphaRand) ELSE px[4]>>

\* pixels <<red, green, blue, alpha>> that getImageData may return
PixelSamples ==
  {<<0, 255, 128, 255>>, <<254, 1, 127, 255>>, <<3, 252, 200, 128>>}

\* the image data before the stage and the two options the stage reads
NoiseInputs ==
  [pc : {"noise"},
   p : {1},
   before : [1..NoisePixels -> PixelSamples],
   data : {<<>>},
   options : [textureIntensity : {Undefined, 0, 5, 7, 8, 20, 100},
              marketCloaking : BOOLEAN]]

InitNoise ==
  /\ clock = 0
  /\ store = <<>>
  /\ dbQueue = <<>>
  /\ activeSection = "synthesizer"
  /\ variants = <<>>
  /\ clearKey = 0
  /\ isLoadingHistory = FALSE
  /\ synth = FreshSynth(<<>>)
  /\ loops = [l \in 1..MaxLoops |-> IdleLoop]
  /\ exps = [e \in 1..MaxExports |-> IdleExp]
  /\ lastAlert = "none"
  /\ expected = {}
  /\ lastWrite = "none"
  /\ lastClear = [outcome |-> "none", path |-> "none"]
  /\ valid = NoValid
  /\ sims = [k \in 1..MaxSims |-> IdleSim]
  /\ taggings = [k \in 1..MaxTaggings |-> IdleTagging]
  /\ backgrounds = [k \in 1..MaxBackgrounds |-> IdleBackground]
  /\ lastSave = NoSave
  /\ render \in NoiseInputs

NoiseFrame ==
  UNCHANGED <<clock, store, dbQueue, activeSection, variants, clearKey,
              isLoadingHistory, synth, loops, exps, lastAlert, expected,
              lastWrite, lastClear, valid, sims, taggings, backgrounds,
              lastSave>>

\* the body of `for (let i = 0; i < data.length; i += 4)` for one pixel
NoiseStep(rand, alphaRand) ==
  /\ render.pc = "noise"
  /\ render.p <= Len(render.before)
  /\ render' = [render EXCEPT
                  !.p = @ + 1,
                  !.data = Append(@, NoisePixel(render.before[render.p],
                                                render.p, rand, alphaRand,
                                                render.options))]
  /\ NoiseFrame

\* the loop has ended: ctx.putImageData(imageData, 0, 0)
NoisePut ==
  /\ render.pc = "noise"
  /\ render.p > Len(render.before)
  /\ render' = [render EXCEPT !.pc = "noised"]
  /\ NoiseFrame

NextNoise ==
  \/ \E rand \in 0..(RandSteps - 1), alphaRand \in 0..(RandSteps - 1) :
       NoiseStep(rand, alphaRand)
  \/ NoisePut

SpecNoise == InitNoise /\ [][NextNoise]_vars

\* C21: with textureIntensity 0 the noise stage is a no-op: every channel of
\* every pixel has after the stage the value it had before it.
ZeroIntensityNoiseIsNoOp ==
  (render.pc = "noised" /\ render.options.textureIntensity = 0) =>
    render.data = render.before

Distance(a, b) == IF a >= b THEN a - b ELSE b - a

\* the k of the claim: 15 with cloaking, 10 without
ClaimedFactor(options) == IF options.marketCloaking THEN 15 ELSE 10

\* C23: in the noise stage every red, green and blue value stays within
\* [0, 255] and moves by at most textureIntensity * k from its value before
\* the stage, k being 15 with cloaking and 10 without.
NoiseWithinBudget ==
  (render.pc \in {"noise", "noised"}
     /\ render.options.textureIntensity # Undefined) =>
    \A q \in 1..Len(render.data), c \in 1..3 :
      /\ render.data[q][c] \in 0..255
      /\ Distance(render.data[q][c], render.before[q][c]) * IntensityUnit
           <= render.options.textureIntensity * ClaimedFactor(render.options)

\* ---- bulk export across remounts ----------------------------------------
\* The application with its exports and its navigation: the export button
\* may be clicked again after the synthesizer has been mounted anew.
InitOverlap ==
  /\ clock = 0
  /\ store \in ExportedStores
  /\ dbQueue = <<Req("getAll", 0, 0, "mount", FALSE)>>
  /\ activeSection = "synthesizer"
  /\ variants = <<>>
  /\ clearKey = 0
  /\ isLoadingHistory = TRUE
  /\ synth = FreshSynth(<<>>)
  /\ loops = [l \in 1..MaxLoops |-> IdleLoop]
  /\ exps = [e \in 1..ExportSlots |-> IdleExp]
  /\ lastAlert = "none"
  /\ expected = {store[k] : k \in 1..Len(store)}
  /\ lastWrite = "none"
  /\ lastClear = [outcome |-> "none", path |-> "none"]
  /\ valid = NoValid
  /\ sims = [k \in 1..MaxSims |-> IdleSim]
  /\ taggings = [k \in 1..MaxTaggings |-> IdleTagging]
  /\ backgrounds = [k \in 1..MaxBackgrounds |-> IdleBackground]
  /\ lastSave = NoSave
  /\ render = NoRender

NextOverlap ==
  \/ \E s \in Sections : SetActiveSection(s)
  \/ \E c \in BOOLEAN : DownloadBatchSequentially(c)
  \/ \E e \in 1..ExportSlots : ExportNextItem(e)
  \/ \E e \in 1..ExportSlots : ExportPurge(e)
  \/ \E e \in 1..ExportSlots : ExportDone(e)
  \/ DbClearOk
  \/ DbClearFail
  \/ DbClearAbort
  \/ DbGetAllOk
  \/ DbGetAllFail

SpecOverlap == InitOverlap /\ [][NextOverlap]_vars

\* an export loop that has started and not ended
ExportRunning(e) == exps[e].pc \in {"sleep", "purging", "hung"}

\* C25: at most one bulk-export loop is active at any time: while an export
\* loop is running, no invocation of downloadBatchSequentially starts
\* another loop or triggers a file save, whatever navigation or remount has
\* happened in between.
NoSecondExportLoop ==
  [][(\E e \in DOMAIN exps : ExportRunning(e)) =>
       \A e \in DOMAIN exps :
         exps[e].pc = "idle" => exps'[e].pc = "idle"
    ]_vars

\* ---- termination of the loops --------------------------------------------
\* What the browser guarantees: a timer that was set fires, a transaction
\* of IndexedDB ends with complete, with an error or with an abort, and the
\* decoding of an image ends with onload or onerror.
Scheduling ==
  /\ \A l \in 1..MaxLoops :
       /\ WF_vars(LoadImageOk(l) \/ LoadImageFail(l))
       /\ WF_vars(SleepDone(l))
  /\ \A e \in 1..MaxExports :
       WF_vars(ExportNextItem(e) \/ ExportPurge(e) \/ ExportDone(e))
  /\ WF_vars(DbPutOk \/ DbPutFail \/ DbPutAbort)
  /\ WF_vars(DbClearOk \/ DbClearFail \/ DbClearAbort)
  /\ WF_vars(DbGetAllOk \/ DbGetAllFail)

SpecLive == InitExport /\ [][NextExport]_vars /\ Scheduling

LoopRunning(l) == loops[l].pc \notin {"idle", "done"}

\* C26 (as claimed): every started batch loop and every started export loop
\* finishes, and the step that ends a loop of the mounted module, by success
\* or by failure, leaves its busy flag false (isGenerating,
\* isBatchDownloading) and the export progress at 0, so that the action is
\* available again.
LoopsFinishAndRelease ==
  /\ \A l \in 1..MaxLoops : LoopRunning(l) ~> (loops[l].pc = "done")
  /\ \A e \in 1..MaxExports : ExportRunning(e) ~> (exps[e].pc = "done")
  /\ [][/\ \A l \in 1..MaxLoops :
            (LoopRunning(l) /\ loops'[l].pc = "done" /\ loops[l].attached) =>
              ~synth'.isGenerating
        /\ \A e \in 1..MaxExports :
            (ExportRunning(e) /\ exps'[e].pc = "done" /\ exps[e].attached) =>
              /\ ~synth'.isBatchDownloading
              /\ synth'.exportProgress[1] = 0
       ]_vars

\* ---- purge after a bulk export -------------------------------------------
\* the ids of the variants whose file save the export loop e has triggered
ExportedIds(e) == {exps[e].batch[j].id : j \in 1..Len(exps[e].saved)}

\* C27: the purge that follows a bulk export deletes from the store only
\* variants whose file save that export has triggered; a variant persisted
\* while the export was running is not deleted without having been exported.
ExportPurgeDeletesOnlyExported ==
  [][\A e \in DOMAIN exps :
       (DbClearOk /\ Head(dbQueue).path = "export" /\ Head(dbQueue).exp = e)
         => \A k \in 1..Len(store) : store[k].id \in ExportedIds(e)
    ]_vars

\* ---- the list after a purge ----------------------------------------------
\* C28: once a purge has completed successfully, every variant of App's list
\* is present in the store; a batch loop or validation run that was in
\* flight at the purge does not bring purged variants back into the list.
ListedVariantsAreStoredAfterPurge ==
  lastClear.outcome = "ok" =>
    \A k \in 1..Len(variants) :
      \E j \in 1..Len(store) : store[j].id = variants[k].id

\* ---- a purge that fails ---------------------------------------------------
\* the results buffer holds the list the export e of the mounted module walks
\* until the export begins its purge (nothing replaces the list meanwhile)
BufferIsExportList ==
  \A e \in DOMAIN exps :
    (exps[e].pc = "sleep" /\ exps[e].attached) =>
      synth.lastBatch = exps[e].batch

\* C29: a purge that fails leaves the in-memory state as it was before the
\* purge began: App's list and clearKey are unchanged, and the results buffer
\* of the synthesizer holds again what it held, the list the export walked.
FailedPurgeKeepsMemory ==
  [][\A e \in DOMAIN exps :
       (DbClearFail /\ Head(dbQueue).exp = e /\ exps[e].attached) =>
         /\ variants' = variants
         /\ clearKey' = clearKey
         /\ synth'.lastBatch = exps[e].batch
    ]_vars

\* ---- validation and the store --------------------------------------------
\* C30: a validation run changes in-memory state only: no step of
\* startSimulation (a step that moves a run on: its click, each of its
\* timers), handleValidationComplete included, changes the store, and
\* every record of the store has status 'pending' and no detected price, no
\* detected shipping and no error message.
ValidationLeavesStore ==
  /\ [](\A j \in 1..Len(store) :
          /\ store[j].status = "pending"
          /\ store[j].detectedPrice = Absent
          /\ store[j].detectedShipping = Undefined
          /\ store[j].errorMessage = Absent)
  /\ [][(\E k \in 1..MaxSims :
            sims'[k].pc # sims[k].pc \/ sims'[k].i # sims[k].i) =>
          store' = store]_vars

\* witness of C30: a validation run has ended with a failed variant in App's
\* list, and the store holds that variant
FailedVariantStored ==
  \E k \in 1..Len(variants), j \in 1..Len(store) :
    /\ variants[k].status = "failed"
    /\ variants[k].errorMessage # Absent
    /\ store[j].id = variants[k].id
    /\ \E n \in 1..MaxSims : sims[n].pc = "done"

\* ---- order of the in-memory list ----------------------------------------
\* C24: once the history has been recovered, App's list is ordered by
\* descending timestamp, also after every batch completion and validation
\* merge.
VariantsNewestFirst ==
  ~isLoadingHistory =>
    \A j \in 1..Len(variants), k \in 1..Len(variants) :
      j < k => variants[j].timestamp >= variants[k].timestamp

\* ---- history recovery ---------------------------------------------------
\* C19: a history read that fails leaves the in-memory list and the mounted
\* modules as they are, and the loading flag is cleared by the failure as it
\* is by the success.
HistoryReadFailureKeepsMemory ==
  [][/\ (DbGetAllOk \/ DbGetAllFail) => isLoadingHistory' = FALSE
     /\ DbGetAllFail =>
          /\ variants' = variants
          /\ synth' = synth
          /\ valid' = valid
          /\ activeSection' = activeSection
    ]_vars

\* witness of C19: the store of the former session is not empty and has not
\* been written, the read has ended, and the list is still empty: the read
\* has failed
HistoryReadFailed ==
  /\ store # <<>>
  /\ lastWrite = "none"
  /\ dbQueue = <<>>
  /\ variants = <<>>
  /\ ~isLoadingHistory
====
